---- MODULE Spec2Model ----
(***************************************************************************)
(* ProcessHandler of process_runner/process_runner.py: run_command and its *)
(* helpers (command_to_args, represent_duration, summarize_process) and    *)
(* the history ledger _xtrabackup_history_log.                             *)
(*                                                                         *)
(* Text (a Python str) is a sequence of one-character strings, so that     *)
(* the regular-expression substitution, the shell word-splitting and the   *)
(* substring tests are computed character by character.                    *)
(***************************************************************************)
EXTENDS Integers, Sequences, FiniteSets, TLC

(***************************************************************************)
(* Bounds of the model.                                                    *)
(***************************************************************************)
\* run_command calls made by the single-threaded caller
MaxCalls == 2
\* output lines one child process prints before its stream ends
MaxLines == 2
\* flags after the executable in the commands the classifier is tried on
MaxFlags == 3

(***************************************************************************)
(* Characters and literals of the source.                                  *)
(***************************************************************************)
\* \w of Python's re on a str pattern, restricted to the characters in use
WordChars ==
    {"a", "b", "c", "d", "e", "f", "g", "h", "i", "j", "k", "l", "m", "n",
     "o", "p", "q", "r", "s", "t", "u", "v", "w", "x", "y", "z",
     "0", "1", "2", "3", "4", "5", "6", "7", "8", "9", "_"}

\* shlex.whitespace
Whitespace == {" ", "\t", "\r", "\n"}

\* shlex.quotes
Quotes == {"'", "\""}

PasswordFlag == <<"-", "-", "p", "a", "s", "s", "w", "o", "r", "d", "=">>

PasswordMask == <<"-", "-", "p", "a", "s", "s", "w", "o", "r", "d", "=", "'", "*", "'">>

XtrabackupName == <<"x", "t", "r", "a", "b", "a", "c", "k", "u", "p">>

PigzName == <<"p", "i", "g", "z">>

BackupFlag == <<"-", "-", "b", "a", "c", "k", "u", "p">>

PrepareFlag == <<"-", "-", "p", "r", "e", "p", "a", "r", "e">>

ApplyLogOnlyFlag == <<"-", "-", "a", "p", "p", "l", "y", "-", "l", "o", "g", "-", "o", "n", "l", "y">>

DecryptPattern == <<"-", "-", "d", "e", "c", "r", "y", "p", "t">>

DecompressPattern == <<"-", "-", "d", "e", "c", "o", "m", "p", "r", "e", "s", "s">>

(***************************************************************************)
(* Text helpers.                                                           *)
(***************************************************************************)
\* p occurs in s starting at index i
OccursAt(p, s, i) ==
    /\ i >= 1
    /\ i + Len(p) - 1 <= Len(s)
    /\ \A k \in 1..Len(p) : s[i + k - 1] = p[k]

\* Python's "p in s" on str (re.search of a literal)
Contains(s, p) == \E i \in 1..(Len(s) + 1) : OccursAt(p, s, i)

\* "x in args" on a list of str
InArgs(x, args) == \E i \in 1..Len(args) : args[i] = x

RECURSIVE Join(_, _)
\* sep.join(parts)
Join(parts, sep) ==
    IF Len(parts) = 0 THEN <<>>
    ELSE IF Len(parts) = 1 THEN parts[1]
    ELSE parts[1] \o sep \o Join(Tail(parts), sep)

RECURSIVE WordRunEnd(_, _)
\* the index after the longest run of \w characters of s that starts at j
WordRunEnd(s, j) ==
    IF j <= Len(s) /\ s[j] \in WordChars THEN WordRunEnd(s, j + 1) ELSE j

\* The index after a match of --password='?\w+'? at index i of s, 0 when the
\* pattern does not match there. Both quotes are optional and greedy; when an
\* opening quote is consumed and no word character follows, the backtracked
\* alternative starts \w+ at the quote itself and fails too.
PasswordMatchEnd(s, i) ==
    IF ~OccursAt(PasswordFlag, s, i) THEN 0
    ELSE LET j  == i + Len(PasswordFlag)
             j1 == IF j <= Len(s) /\ s[j] = "'" THEN j + 1 ELSE j
             k  == WordRunEnd(s, j1)
         IN  IF k = j1 THEN 0
             ELSE IF k <= Len(s) /\ s[k] = "'" THEN k + 1
             ELSE k

RECURSIVE ReSubFrom(_, _)
\* re.sub scanning s from index i: leftmost non-overlapping matches replaced
ReSubFrom(s, i) ==
    IF i > Len(s) THEN <<>>
    ELSE LET m == PasswordMatchEnd(s, i)
         IN  IF m > 0 THEN PasswordMask \o ReSubFrom(s, m)
             ELSE <<s[i]>> \o ReSubFrom(s, i + 1)

\* re.sub("--password='?\w+'?", "--password='*'", command) on a str
filtered_command(command_text) == ReSubFrom(command_text, 1)

RECURSIVE ShlexFrom(_, _, _, _, _, _)
\* shlex.split(s) in POSIX mode from index i: tok is the token being read,
\* intok whether one was started, quote the open quote character ("" for
\* none), acc the tokens read so far. A quote left open is a ValueError.
\* (Backslash escapes are outside the characters in use.)
ShlexFrom(s, i, tok, intok, quote, acc) ==
    IF i > Len(s)
    THEN IF quote # "" THEN [error |-> "ValueError", args |-> <<>>]
         ELSE [error |-> "", args |-> IF intok THEN Append(acc, tok) ELSE acc]
    ELSE LET c == s[i]
         IN  IF quote # ""
             THEN IF c = quote
                  THEN ShlexFrom(s, i + 1, tok, TRUE, "", acc)
                  ELSE ShlexFrom(s, i + 1, Append(tok, c), TRUE, quote, acc)
             ELSE IF c \in Whitespace
             THEN IF intok
                  THEN ShlexFrom(s, i + 1, <<>>, FALSE, "", Append(acc, tok))
                  ELSE ShlexFrom(s, i + 1, <<>>, FALSE, "", acc)
             ELSE IF c \in Quotes
             THEN ShlexFrom(s, i + 1, tok, TRUE, c, acc)
             ELSE ShlexFrom(s, i + 1, Append(tok, c), TRUE, "", acc)

shlex_split(s) == ShlexFrom(s, 1, <<>>, FALSE, "", <<>>)

RECURSIVE EscapeQuotes(_)
EscapeQuotes(s) ==
    IF Len(s) = 0 THEN <<>>
    ELSE (IF s[1] = "'" THEN <<"\\", "'">> ELSE <<s[1]>>) \o EscapeQuotes(Tail(s))

\* repr() of a str: single quotes, double quotes when the text holds a single
\* quote and no double quote, escaped single quotes otherwise
PyReprStr(s) ==
    IF ~Contains(s, <<"'">>) THEN <<"'">> \o s \o <<"'">>
    ELSE IF ~Contains(s, <<"\"">>) THEN <<"\"">> \o s \o <<"\"">>
    ELSE <<"'">> \o EscapeQuotes(s) \o <<"'">>

\* "{}".format(args) of a list of str
PyReprList(args) ==
    <<"[">> \o Join([i \in 1..Len(args) |-> PyReprStr(args[i])], <<",", " ">>) \o <<"]">>

RECURSIVE LastSegment(_)
\* s.split("/")[-1:][0]
LastSegment(s) ==
    IF Len(s) = 0 THEN <<>>
    ELSE IF s[Len(s)] = "/" THEN <<>>
    ELSE Append(LastSegment(SubSeq(s, 1, Len(s) - 1)), s[Len(s)])

RECURSIVE StripNewlines(_)
\* str.strip("\n")
StripNewlines(s) ==
    IF Len(s) = 0 THEN s
    ELSE IF s[1] = "\n" THEN StripNewlines(Tail(s))
    ELSE IF s[Len(s)] = "\n" THEN StripNewlines(SubSeq(s, 1, Len(s) - 1))
    ELSE s

(***************************************************************************)
(* Timestamps (datetime.datetime): whole seconds since the first midnight  *)
(* of the run's calendar, and microseconds.                                *)
(***************************************************************************)
TimeLeq(a, b) == a.sec < b.sec \/ (a.sec = b.sec /\ a.us <= b.us)

\* end_time - start_time, normalised as datetime.timedelta does:
\* 0 <= seconds < 86400, 0 <= microseconds < 1000000, days carries the rest
timedelta(start_time, end_time) ==
    LET borrow == IF end_time.us < start_time.us THEN 1 ELSE 0
        whole  == end_time.sec - start_time.sec - borrow
    IN  [days         |-> whole \div 86400,
         seconds      |-> whole % 86400,
         microseconds |-> end_time.us - start_time.us + borrow * 1000000]

\* '%dd%dh%dm%ds' % (days, hours, minutes, seconds) and its shorter forms
FormatDuration(days, hours, minutes, seconds) ==
    IF days > 0
    THEN ToString(days) \o "d" \o ToString(hours) \o "h"
         \o ToString(minutes) \o "m" \o ToString(seconds) \o "s"
    ELSE IF hours > 0
    THEN ToString(hours) \o "h" \o ToString(minutes) \o "m" \o ToString(seconds) \o "s"
    ELSE IF minutes > 0
    THEN ToString(minutes) \o "m" \o ToString(seconds) \o "s"
    ELSE ToString(seconds) \o "s"

represent_duration(start_time, end_time) ==
    LET duration_delta == timedelta(start_time, end_time)
        seconds0 == duration_delta.seconds
        days     == seconds0 \div 86400
        seconds1 == seconds0 % 86400
        hours    == seconds1 \div 3600
        seconds2 == seconds1 % 3600
        minutes  == seconds2 \div 60
        seconds3 == seconds2 % 60
    IN  FormatDuration(days, hours, minutes, seconds3)

\* strftime('%Y-%m-%d %H:%M:%S'): the microseconds are dropped; the calendar
\* date is kept as the day's ordinal
strftime(t) ==
    <<t.sec \div 86400, (t.sec % 86400) \div 3600, (t.sec % 3600) \div 60, t.sec % 60>>

(***************************************************************************)
(* summarize_process: classification and the ledger append.                *)
(***************************************************************************)
\* a plausible slip: the directory prefix is not split off
cmd_root_unsplit(args) == args[1]

\* args[0].split("/")[-1:][0]
cmd_root(args) == LastSegment(args[1])

\* a plausible slip: --prepare is tested before --backup
BackupToolRulePrepareFirst(args) ==
    IF InArgs(PrepareFlag, args) /\ ~InArgs(ApplyLogOnlyFlag, args) THEN "prepare"
    ELSE IF InArgs(PrepareFlag, args) /\ InArgs(ApplyLogOnlyFlag, args)
    THEN "prepare/apply-log-only"
    ELSE IF InArgs(BackupFlag, args) THEN "backup"
    ELSE "None"

\* the if/elif chain under cmd_root == "xtrabackup"
BackupToolRule(args) ==
    IF InArgs(BackupFlag, args) THEN "backup"
    ELSE IF InArgs(PrepareFlag, args) /\ ~InArgs(ApplyLogOnlyFlag, args) THEN "prepare"
    ELSE IF InArgs(PrepareFlag, args) /\ InArgs(ApplyLogOnlyFlag, args)
    THEN "prepare/apply-log-only"
    ELSE "None"

RECURSIVE FlagScan(_, _, _)
\* for arg in args: the loop has no break, every matching token assigns
FlagScan(args, i, fn) ==
    IF i > Len(args) THEN fn
    ELSE FlagScan(args, i + 1,
                  IF Contains(args[i], DecryptPattern) THEN "decrypt"
                  ELSE IF Contains(args[i], DecompressPattern) THEN "decompress"
                  ELSE fn)

\* the value of xtrabackup_function when the row is built ("None" for None)
xtrabackup_function(args) ==
    LET by_tool == IF cmd_root(args) = XtrabackupName THEN BackupToolRule(args) ELSE "None"
    IN  IF by_tool = "None" THEN FlagScan(args, 1, "None") ELSE by_tool

HeadersAtInit ==
    <<"command", "xtrabackup_function", "process_id", "result",
      "start time", "end time", "duration", "exit code">>

HeadersOfRow ==
    <<"command", "xtrabackup_fn", "duration", "result",
      "start time", "end time", "exit code", "process_id">>

\* a plausible slip: insert(0, row) for append(row)
LedgerPrepend(log, row) == <<row>> \o log

\* list.append
LedgerAppend(log, row) == Append(log, row)

\* self is [headers, log]; the value is self after the call
summarize_process(self, args, result_str, cmd_start, cmd_end, return_code, process_id) ==
    IF cmd_root(args) = PigzName THEN self
    ELSE [headers |-> HeadersOfRow,
          log     |-> LedgerAppend(self.log,
                        [command       |-> cmd_root(args),
                         xtrabackup_fn |-> xtrabackup_function(args),
                         duration      |-> represent_duration(cmd_start, cmd_end),
                         result        |-> result_str,
                         start_time    |-> strftime(cmd_start),
                         end_time      |-> strftime(cmd_end),
                         exit_code     |-> return_code,
                         process_id    |-> process_id])]

(***************************************************************************)
(* The state of one ProcessHandler, of the call in progress, of its child  *)
(* process and of the log sink.                                            *)
(***************************************************************************)
VARIABLES
    xtrabackup_history_log,          \* self._xtrabackup_history_log
    xtrabackup_history_log_headers,  \* self._xtrabackup_history_log_headers
    pc,               \* where the caller's thread is in run_command
    calls,            \* run_command calls entered so far
    command,          \* the argument of the call in progress
    subprocess_args,  \* run_command's local: the child's argument vector
    cmd_start,        \* run_command's local
    cmd_end,          \* run_command's local
    process,          \* the Popen object: spawned, pid, returncode
    child_output,     \* the raw lines the child has written to the merged pipe
    log,              \* the entries run_command and its helpers logged in this call
    outcome,          \* how the last call ended: a returned value or a raised exception
    now,              \* the last reading of the wall clock
    log_at_call       \* the ledger's rows when the call in progress was entered

vars ==
    <<xtrabackup_history_log, xtrabackup_history_log_headers, pc, calls, command,
      subprocess_args, cmd_start, cmd_end, process, child_output, log, outcome,
      now, log_at_call>>

\* a command given as a str
StrCommand(text) == [type |-> "str", text |-> text, tokens |-> <<>>]

\* a command given as a list of str
ListCommand(tokens) == [type |-> "list", text |-> <<>>, tokens |-> tokens]

\* a command that is neither (None, bytes, a number)
OtherCommand == [type |-> "other", text |-> <<>>, tokens |-> <<>>]

NoTime == [sec |-> 0, us |-> 0]

NoProcess == [spawned |-> FALSE, pid |-> 0, returncode |-> -1, terminated |-> FALSE]

NoOutcome == [kind |-> "none", value |-> "", args |-> <<>>]

Returned(v) == [kind |-> "return", value |-> v, args |-> <<>>]

\* raise E: an exception instance of class E built without arguments
Raised(e) == [kind |-> "raise", value |-> e, args |-> <<>>]

\* one logger call: level, format string, the str and the int arguments of format()
Entry(level, fmt, strs, nums) == [level |-> level, fmt |-> fmt, strs |-> strs, nums |-> nums]

(***************************************************************************)
(* command_to_args                                                         *)
(***************************************************************************)
command_to_args(command_str) ==
    LET r == IF command_str.type = "list" THEN [error |-> "", args |-> command_str.tokens]
             ELSE IF command_str.type = "str" THEN shlex_split(command_str.text)
             ELSE [error |-> "TypeError", args |-> <<>>]
    IN  [error   |-> r.error,
         args    |-> r.args,
         logged  |-> IF r.error = "" 
                     THEN <<Entry("DEBUG", "subprocess args are: {}", <<PyReprList(r.args)>>, <<>>)>>
                     ELSE <<>>]

(***************************************************************************)
(* run_command, in the steps at which the child process or the clock is    *)
(* observed.                                                               *)
(***************************************************************************)
Init ==
    /\ xtrabackup_history_log = <<>>
    /\ xtrabackup_history_log_headers = HeadersAtInit
    /\ pc = "idle"
    /\ calls = 0
    /\ command = OtherCommand
    /\ subprocess_args = <<>>
    /\ cmd_start = NoTime
    /\ cmd_end = NoTime
    /\ process = NoProcess
    /\ child_output = <<>>
    /\ log = <<>>
    /\ outcome = NoOutcome
    /\ now = NoTime
    /\ log_at_call = <<>>

\* the clock readings datetime.now() can give next
ClockReadings(times) == {t \in times : TimeLeq(now, t)}

\* The call is entered: the re.sub (a TypeError on anything but a str), the
\* start entry, command_to_args, cmd_start.
RunCommandEnter(c, times) ==
    /\ pc \in {"idle", "done"}
    /\ calls < MaxCalls
    /\ calls' = calls + 1
    /\ command' = c
    /\ log_at_call' = xtrabackup_history_log
    /\ cmd_end' = NoTime
    /\ process' = NoProcess
    /\ child_output' = <<>>
    /\ UNCHANGED <<xtrabackup_history_log, xtrabackup_history_log_headers>>
    /\ IF c.type # "str"
       THEN /\ log' = <<>>
            /\ outcome' = Raised("TypeError")
            /\ pc' = "done"
            /\ subprocess_args' = <<>>
            /\ cmd_start' = NoTime
            /\ now' = now
       ELSE LET started == Entry("INFO", "SUBPROCESS STARTING: {}",
                                 <<filtered_command(c.text)>>, <<>>)
                parsed  == command_to_args(c)
            IN  IF parsed.error # ""
                THEN /\ log' = <<started>>
                     /\ outcome' = Raised(parsed.error)
                     /\ pc' = "done"
                     /\ subprocess_args' = <<>>
                     /\ cmd_start' = NoTime
                     /\ now' = now
                ELSE \E t \in ClockReadings(times) :
                     /\ log' = <<started>> \o parsed.logged
                     /\ outcome' = NoOutcome
                     /\ pc' = "popen"
                     /\ subprocess_args' = parsed.args
                     /\ cmd_start' = t
                     /\ now' = t

\* subprocess.Popen(subprocess_args, stdout=PIPE, stderr=STDOUT): an empty
\* argument vector is an IndexError, an executable that cannot be launched a
\* FileNotFoundError; otherwise the child runs with process id p.
Popen(found, p) ==
    /\ pc = "popen"
    /\ IF subprocess_args = <<>>
       THEN /\ outcome' = Raised("IndexError")
            /\ pc' = "done"
            /\ process' = process
       ELSE IF ~found
       THEN /\ outcome' = Raised("FileNotFoundError")
            /\ pc' = "done"
            /\ process' = process
       ELSE /\ outcome' = outcome
            /\ pc' = "reading"
            /\ process' = [spawned |-> TRUE, pid |-> p, returncode |-> -1,
                           terminated |-> FALSE]
    /\ UNCHANGED <<xtrabackup_history_log, xtrabackup_history_log_headers, calls,
                   command, subprocess_args, cmd_start, cmd_end, child_output, log,
                   now, log_at_call>>

\* a byte that is no valid UTF-8
BadByte == "0xFF"

\* bytes.decode("utf-8") succeeds
Decodable(line) == \A i \in 1..Len(line) : line[i] # BadByte

\* One iteration of "for line in process.stdout": the child has written a
\* line. A line that does not decode raises UnicodeDecodeError out of the
\* with block, whose exit waits for the child (exit code rc).
ReadLine(line, rc) ==
    /\ pc = "reading"
    /\ Len(child_output) < MaxLines
    /\ child_output' = Append(child_output, line)
    /\ IF Decodable(line)
       THEN /\ log' = Append(log, Entry("DEBUG", "[{}:{}] {}",
                                        <<subprocess_args[1], StripNewlines(line)>>,
                                        <<process.pid>>))
            /\ UNCHANGED <<pc, process, outcome>>
       ELSE /\ process' = [process EXCEPT !.returncode = rc, !.terminated = TRUE]
            /\ outcome' = Raised("UnicodeDecodeError")
            /\ pc' = "done"
            /\ log' = log
    /\ UNCHANGED <<xtrabackup_history_log, xtrabackup_history_log_headers, calls,
                   command, subprocess_args, cmd_start, cmd_end, now, log_at_call>>

\* The stream ends and the with block waits for the child, which exits with
\* rc: the completion entry, cmd_end, result_str and summarize_process.
EndOfStream(rc, times) ==
    /\ pc = "reading"
    /\ \E t \in ClockReadings(times) :
        LET result_str == IF rc = 0 THEN "Success" ELSE "Failure"
            self == [headers |-> xtrabackup_history_log_headers,
                     log     |-> xtrabackup_history_log]
            after == summarize_process(self, subprocess_args, result_str, cmd_start, t,
                                       rc, process.pid)
        IN  /\ process' = [process EXCEPT !.returncode = rc, !.terminated = TRUE]
            /\ log' = Append(log, Entry("INFO", "SUBPROCESS {} COMPLETED with exit code: {}",
                                        <<subprocess_args[1]>>, <<rc>>))
            /\ cmd_end' = t
            /\ now' = t
            /\ xtrabackup_history_log' = after.log
            /\ xtrabackup_history_log_headers' = after.headers
    /\ pc' = "summarized"
    /\ UNCHANGED <<calls, command, subprocess_args, cmd_start, child_output, outcome,
                   log_at_call>>

\* return True, or the two error entries and raise ChildProcessError
Finish ==
    /\ pc = "summarized"
    /\ pc' = "done"
    /\ IF process.returncode = 0
       THEN /\ outcome' = Returned("True")
            /\ log' = log
       ELSE /\ outcome' = Raised("ChildProcessError")
            /\ log' = log \o
                 <<Entry("ERROR", "A subprocess: {} returned a non-zero exit code.",
                         <<subprocess_args[1]>>, <<>>),
                   Entry("ERROR", "Look above for ERROR level logs from process_runner.",
                         <<>>, <<>>)>>
    /\ UNCHANGED <<xtrabackup_history_log, xtrabackup_history_log_headers, calls,
                   command, subprocess_args, cmd_start, cmd_end, process, child_output,
                   now, log_at_call>>

(***************************************************************************)
(* The inputs: commands the caller passes, what the children print, their  *)
(* exit codes and process ids, and the clock's readings.                   *)
(***************************************************************************)
Sp == <<" ">>

\* "exe flag flag ..." as the caller's code builds its commands
CommandLine(words) == StrCommand(Join(words, Sp))

BinDir == <<"/", "b", "/">>

LsName == <<"l", "s">>

XbcryptName == <<"x", "b", "c", "r", "y", "p", "t">>

VersionFlag == <<"-", "-", "v", "e", "r", "s", "i", "o", "n">>

DecryptFlag == DecryptPattern \o <<"=", "A", "E", "S">>

DecompressFlag == DecompressPattern

Commands ==
    {CommandLine(<<XtrabackupName, BackupFlag>>),
     CommandLine(<<LsName>>),
     CommandLine(<<PigzName, VersionFlag>>),
     CommandLine(<<BinDir \o PigzName, DecompressFlag, BackupFlag>>),
     StrCommand(<<>>),
     StrCommand(<<"l", "s", " ", "'", "a">>),
     ListCommand(<<XtrabackupName, BackupFlag>>),
     ListCommand(<<LsName>>),
     OtherCommand}

At(sec, us) == [sec |-> sec, us |-> us]

Times == {At(0, 0), At(65, 0), At(86470, 500000)}

OkLine == <<"o", "k", "\n">>

ErrLine == <<"E", "r", "r", "\n">>

BadLine == <<BadByte, "\n">>

Lines == {OkLine, ErrLine, BadLine}

ExitCodes == {0, 1, 2}

Pids == {4242}

NextOver(cmds, times, lines, codes) ==
    \/ \E c \in cmds : RunCommandEnter(c, times)
    \/ \E found \in BOOLEAN, p \in Pids : Popen(found, p)
    \/ \E line \in lines, rc \in codes : ReadLine(line, rc)
    \/ \E rc \in codes : EndOfStream(rc, times)
    \/ Finish

Next == NextOver(Commands, Times, Lines, ExitCodes)

Spec == Init /\ [][Next]_vars

(***************************************************************************)
(* summarize_process called on its own, on a freshly constructed handler   *)
(* and on every ordering of up to MaxFlags distinct flags after three      *)
(* executables; the call is repeated so that the ledger is not empty.      *)
(***************************************************************************)
TargetDirArg == <<"-", "-", "t", "a", "r", "g", "e", "t", "-", "d", "i", "r", "=", "/", "d">>

ClassFlags ==
    {BackupFlag, PrepareFlag, ApplyLogOnlyFlag, DecryptFlag, DecompressFlag, TargetDirArg}

FlagVectors ==
    UNION {{f \in [1..n -> ClassFlags] : \A i, j \in 1..n : i # j => f[i] # f[j]} :
           n \in 0..MaxFlags}

ArgVectors ==
    {<<exe>> \o flags :
        exe \in {XtrabackupName, BinDir \o XtrabackupName, XbcryptName},
        flags \in FlagVectors}

InitClassify ==
    /\ xtrabackup_history_log = <<>>
    /\ xtrabackup_history_log_headers = HeadersAtInit
    /\ pc = "summarize"
    /\ calls = 0
    /\ command = OtherCommand
    /\ subprocess_args \in ArgVectors
    /\ cmd_start = NoTime
    /\ cmd_end = At(65, 0)
    /\ process = NoProcess
    /\ child_output = <<>>
    /\ log = <<>>
    /\ outcome = NoOutcome
    /\ now = NoTime
    /\ log_at_call = <<>>

\* self.summarize_process(args, result_str, cmd_start, cmd_end, return_code, process_id)
SummarizeProcessCall(rc, p) ==
    /\ pc = "summarize"
    /\ calls < MaxCalls
    /\ calls' = calls + 1
    /\ log_at_call' = xtrabackup_history_log
    /\ process' = [spawned |-> TRUE, pid |-> p, returncode |-> rc, terminated |-> TRUE]
    /\ LET self == [headers |-> xtrabackup_history_log_headers,
                    log     |-> xtrabackup_history_log]
           after == summarize_process(self, subprocess_args,
                                      IF rc = 0 THEN "Success" ELSE "Failure",
                                      cmd_start, cmd_end, rc, p)
       IN  /\ xtrabackup_history_log' = after.log
           /\ xtrabackup_history_log_headers' = after.headers
    /\ UNCHANGED <<pc, command, subprocess_args, cmd_start, cmd_end, child_output, log,
                   outcome, now>>

NextClassify == \E rc \in ExitCodes, p \in Pids : SummarizeProcessCall(rc, p)

SpecClassify == InitClassify /\ [][NextClassify]_vars

(***************************************************************************)
(* The same program on commands that carry passwords: unquoted and         *)
(* single-quoted, once or twice, first or followed by another flag.        *)
(***************************************************************************)
Secrets == {<<"s", "3", "c">>, <<"p", "@", "5">>, <<"x", "_", "9">>}

PasswordArg(quoted, value) ==
    IF quoted THEN PasswordFlag \o <<"'">> \o value \o <<"'">> ELSE PasswordFlag \o value

PasswordArgs == {PasswordArg(q, v) : q \in BOOLEAN, v \in Secrets}

PasswordCommands ==
    {CommandLine(<<XtrabackupName, a>>) : a \in PasswordArgs}
    \cup {CommandLine(<<XtrabackupName, a, BackupFlag>>) : a \in PasswordArgs}
    \cup {CommandLine(<<XtrabackupName, a, b>>) : a \in PasswordArgs, b \in PasswordArgs}

NextRedact == NextOver(PasswordCommands, {At(0, 0)}, {OkLine}, {0, 1})

SpecRedact == Init /\ [][NextRedact]_vars

(***************************************************************************)
(* The same program on one command under clock readings seconds, minutes,  *)
(* hours and days apart.                                                   *)
(***************************************************************************)
DurationTimes ==
    {At(0, 0), At(0, 500000), At(5, 0), At(65, 0), At(3661, 0), At(86400, 0),
     At(90061, 0), At(180000, 250000)}

NextDuration ==
    NextOver({CommandLine(<<XtrabackupName, BackupFlag>>)}, DurationTimes, {OkLine}, {0})

SpecDuration == Init /\ [][NextDuration]_vars

(***************************************************************************)
(* What the properties speak of.                                           *)
(***************************************************************************)
\* the base name of an argument vector's executable
ExecutableBaseName(args) == LastSegment(args[1])

\* the argument vector the command of the call in progress stands for
CommandArgs ==
    IF command.type = "list" THEN command.tokens
    ELSE IF command.type = "str" THEN shlex_split(command.text).args
    ELSE <<>>

\* summarize_process has run in the call in progress and has returned
SummarizeRan ==
    \/ pc = "summarized"
    \/ pc = "summarize" /\ calls > 0
    \/ pc = "done" /\ outcome.value \in {"True", "ChildProcessError"}

IsPrefix(a, b) == Len(a) <= Len(b) /\ SubSeq(b, 1, Len(a)) = a

\* the call in progress has added exactly one row, after the rows it found
RowAppended ==
    /\ Len(xtrabackup_history_log) = Len(log_at_call) + 1
    /\ IsPrefix(log_at_call, xtrabackup_history_log)

LastRow == xtrabackup_history_log[Len(xtrabackup_history_log)]

\* the most recently observed line of the merged stream, decoded and stripped
LastOutputLine ==
    IF child_output = <<>> THEN <<>>
    ELSE StripNewlines(child_output[Len(child_output)])

HasFlag(flag) == InArgs(flag, subprocess_args)

(***************************************************************************)
(* C1. A run_command call on a command that is not the noise tool and      *)
(* whose child terminates has, once it returns or raises, appended exactly *)
(* one row, with result Success for exit code 0 and Failure otherwise and  *)
(* with the child's exit code; it returns True for exit code 0 and raises  *)
(* otherwise, and never returns a false value.                             *)
(***************************************************************************)
C1_OneRecordPerTerminatedChild ==
    (/\ pc = "done"
     /\ process.terminated
     /\ ExecutableBaseName(subprocess_args) # PigzName)
    => /\ RowAppended
       /\ LastRow.result = (IF process.returncode = 0 THEN "Success" ELSE "Failure")
       /\ LastRow.exit_code = process.returncode
       /\ process.returncode = 0 => outcome = Returned("True")
       /\ process.returncode # 0 => outcome.kind = "raise"
       /\ outcome # Returned("False")

(***************************************************************************)
(* C2. When the child's stream was read to its end and the child exited    *)
(* with a non-zero code, the error raised carries the executable root      *)
(* name, the exit code and the last output line the child produced.        *)
(***************************************************************************)
C2_FailureCarriesDiagnosis ==
    (/\ pc = "done"
     /\ SummarizeRan
     /\ process.terminated
     /\ process.returncode # 0)
    => /\ outcome.kind = "raise"
       /\ Len(outcome.args) = 3
       /\ outcome.args[1] = ExecutableBaseName(subprocess_args)
       /\ outcome.args[2] = process.returncode
       /\ outcome.args[3] = LastOutputLine

(***************************************************************************)
(* C3. A run_command call whose executable base name is pigz, with or      *)
(* without a directory prefix, whatever its flags and its exit code,       *)
(* leaves the ledger's rows as it found them, at every step of the call.   *)
(***************************************************************************)
NoiseCall ==
    /\ calls > 0
    /\ CommandArgs # <<>>
    /\ ExecutableBaseName(CommandArgs) = PigzName

C3_NoiseLeavesLedger == NoiseCall => xtrabackup_history_log = log_at_call

\* a prefixed pigz with flags has failed, on a ledger that held a row already
C3_Witness ==
    /\ NoiseCall
    /\ pc = "done"
    /\ outcome = Raised("ChildProcessError")
    /\ process.returncode # 0
    /\ subprocess_args[1] # PigzName
    /\ Len(subprocess_args) > 2
    /\ Len(xtrabackup_history_log) > 0

(***************************************************************************)
(* C4. The ledger is append-only and ordered: every step leaves the rows   *)
(* stored so far unchanged and in place and adds at most one row, after    *)
(* them, so that the rows are in the order of the calls that made them.    *)
(***************************************************************************)
C4_AppendOnlyInCallOrder ==
    [][/\ IsPrefix(xtrabackup_history_log, xtrabackup_history_log')
       /\ Len(xtrabackup_history_log') <= Len(xtrabackup_history_log) + 1]_vars

\* two calls have each added a row, and the rows differ
C4_Witness ==
    /\ pc = "done"
    /\ calls = 2
    /\ Len(xtrabackup_history_log) = 2
    /\ xtrabackup_history_log[1] # xtrabackup_history_log[2]

(***************************************************************************)
(* C5. The redacted text of the start entry is the command with every      *)
(* --password=<value> occurrence (the value unquoted, up to the next       *)
(* blank, or single-quoted, up to the closing quote) replaced by           *)
(* --password='*', so that nothing of a value remains in it.               *)
(***************************************************************************)
RECURSIVE ValueRunEnd(_, _)
\* the index after the unquoted value that starts at j
ValueRunEnd(s, j) ==
    IF j <= Len(s) /\ s[j] \notin Whitespace /\ s[j] # "'" THEN ValueRunEnd(s, j + 1) ELSE j

RECURSIVE ClosingQuote(_, _)
\* the index of the first single quote at or after j, 0 when there is none
ClosingQuote(s, j) ==
    IF j > Len(s) THEN 0 ELSE IF s[j] = "'" THEN j ELSE ClosingQuote(s, j + 1)

\* the --password=<value> occurrence at index i of s: the index after it
\* (0 when there is none) and its value
PasswordOccurrence(s, i) ==
    IF ~OccursAt(PasswordFlag, s, i) THEN [end |-> 0, value |-> <<>>]
    ELSE LET j == i + Len(PasswordFlag)
         IN  IF j <= Len(s) /\ s[j] = "'" /\ ClosingQuote(s, j + 1) > j + 1
             THEN [end   |-> ClosingQuote(s, j + 1) + 1,
                   value |-> SubSeq(s, j + 1, ClosingQuote(s, j + 1) - 1)]
             ELSE IF ValueRunEnd(s, j) > j
             THEN [end |-> ValueRunEnd(s, j), value |-> SubSeq(s, j, ValueRunEnd(s, j) - 1)]
             ELSE [end |-> 0, value |-> <<>>]

RECURSIVE FullyRedactedFrom(_, _)
FullyRedactedFrom(s, i) ==
    IF i > Len(s) THEN <<>>
    ELSE LET m == PasswordOccurrence(s, i).end
         IN  IF m > 0 THEN PasswordMask \o FullyRedactedFrom(s, m)
             ELSE <<s[i]>> \o FullyRedactedFrom(s, i + 1)

PasswordValues(s) ==
    {PasswordOccurrence(s, i).value : i \in {k \in 1..Len(s) : PasswordOccurrence(s, k).end > 0}}

C5_StartEntryFullyRedacted ==
    (calls > 0 /\ command.type = "str" /\ log # <<>>)
    => log[1].strs[1] = FullyRedactedFrom(command.text, 1)

(***************************************************************************)
(* C6. run_command accepts a list of tokens and runs exactly that list as  *)
(* the child's argument vector; it raises the invalid-command-type error   *)
(* (TypeError) only for a command that is neither a str nor a list, and    *)
(* then before any child is spawned.                                       *)
(***************************************************************************)
C6_AcceptsBothForms ==
    calls > 0
    => /\ outcome = Raised("TypeError")
          => (command.type \notin {"str", "list"} /\ ~process.spawned)
       /\ (command.type = "list" /\ process.spawned) => subprocess_args = command.tokens

(***************************************************************************)
(* C7. For end >= start the duration of the row is the whole-second        *)
(* elapsed time E between them, as days = E div 86400, hours =             *)
(* (E mod 86400) div 3600, minutes = (E mod 3600) div 60, seconds =        *)
(* E mod 60, printed from the largest non-zero unit downwards.             *)
(***************************************************************************)
ElapsedWholeSeconds(start_time, end_time) ==
    end_time.sec - start_time.sec - (IF end_time.us < start_time.us THEN 1 ELSE 0)

ClaimedDuration(start_time, end_time) ==
    LET E == ElapsedWholeSeconds(start_time, end_time)
        d == E \div 86400
        h == (E % 86400) \div 3600
        m == (E % 3600) \div 60
        sc == E % 60
        hms == ToString(h) \o "h" \o ToString(m) \o "m" \o ToString(sc) \o "s"
    IN  IF d > 0 THEN ToString(d) \o "d" \o hms
        ELSE IF h > 0 THEN hms
        ELSE IF m > 0 THEN ToString(m) \o "m" \o ToString(sc) \o "s"
        ELSE ToString(sc) \o "s"

C7_DurationOfElapsedTime ==
    (SummarizeRan /\ RowAppended /\ TimeLeq(cmd_start, cmd_end))
    => LastRow.duration = ClaimedDuration(cmd_start, cmd_end)

(***************************************************************************)
(* C8. For an argument vector whose executable base name is xtrabackup the *)
(* row's operation kind is backup when the vector holds --backup, prepare  *)
(* when it holds --prepare and neither --backup nor --apply-log-only,      *)
(* prepare/apply-log-only when it holds --prepare and --apply-log-only and *)
(* no --backup.                                                            *)
(***************************************************************************)
C8_BackupToolKinds ==
    (/\ SummarizeRan
     /\ subprocess_args # <<>>
     /\ ExecutableBaseName(subprocess_args) = XtrabackupName)
    => /\ RowAppended
       /\ HasFlag(BackupFlag) => LastRow.xtrabackup_fn = "backup"
       /\ (HasFlag(PrepareFlag) /\ ~HasFlag(BackupFlag) /\ ~HasFlag(ApplyLogOnlyFlag))
          => LastRow.xtrabackup_fn = "prepare"
       /\ (HasFlag(PrepareFlag) /\ ~HasFlag(BackupFlag) /\ HasFlag(ApplyLogOnlyFlag))
          => LastRow.xtrabackup_fn = "prepare/apply-log-only"

\* a prefixed xtrabackup with --prepare after --backup was recorded as backup
C8_Witness ==
    /\ SummarizeRan
    /\ subprocess_args # <<>>
    /\ subprocess_args[1] = BinDir \o XtrabackupName
    /\ \E i, j \in 1..Len(subprocess_args) :
          i < j /\ subprocess_args[i] = PrepareFlag /\ subprocess_args[j] = BackupFlag
    /\ HasFlag(ApplyLogOnlyFlag)
    /\ RowAppended
    /\ LastRow.xtrabackup_fn = "backup"
    /\ LastRow.command = XtrabackupName

(***************************************************************************)
(* C9. When no backup-tool rule classifies the vector, the kind is decided *)
(* by the first token, in argument order, that matches the decrypt or the  *)
(* decompress pattern; later tokens never change it, and a vector with no  *)
(* matching token is recorded as unclassified.                             *)
(***************************************************************************)
NoToolRule ==
    \/ ExecutableBaseName(subprocess_args) # XtrabackupName
    \/ ~HasFlag(BackupFlag) /\ ~HasFlag(PrepareFlag)

MatchesAFlagPattern(arg) ==
    Contains(arg, DecryptPattern) \/ Contains(arg, DecompressPattern)

FirstMatchKind(args) ==
    LET hits == {i \in 1..Len(args) : MatchesAFlagPattern(args[i])}
    IN  IF hits = {} THEN "None"
        ELSE LET first == CHOOSE i \in hits : \A k \in hits : i <= k
             IN  IF Contains(args[first], DecryptPattern) THEN "decrypt" ELSE "decompress"

C9_FirstMatchWins ==
    (/\ SummarizeRan
     /\ subprocess_args # <<>>
     /\ ExecutableBaseName(subprocess_args) # PigzName
     /\ NoToolRule)
    => /\ RowAppended
       /\ LastRow.xtrabackup_fn = FirstMatchKind(subprocess_args)

(***************************************************************************)
(* C10. No entry logged during a run_command call on a command with        *)
(* --password=<value> holds the value.                                     *)
(***************************************************************************)
C10_NoPasswordInAnyEntry ==
    (calls > 0 /\ command.type = "str")
    => \A v \in PasswordValues(command.text) :
          \A i \in 1..Len(log) :
             \A k \in 1..Len(log[i].strs) : ~Contains(log[i].strs[k], v)

(***************************************************************************)
(* How far C1, C5, C7 and C9 do hold of the code: each with the one case   *)
(* that breaks it set aside.                                               *)
(***************************************************************************)
AllOutputDecodes == \A i \in 1..Len(child_output) : Decodable(child_output[i])

\* C1 when every line the child wrote decodes as UTF-8; the row is there
\* before the call returns or raises
C1_WhenOutputDecodes ==
    /\ (pc = "done" /\ process.terminated /\ AllOutputDecodes
        /\ ExecutableBaseName(subprocess_args) # PigzName)
       => /\ RowAppended
          /\ LastRow.result = (IF process.returncode = 0 THEN "Success" ELSE "Failure")
          /\ LastRow.exit_code = process.returncode
          /\ process.returncode = 0 => outcome = Returned("True")
          /\ process.returncode # 0 => outcome = Raised("ChildProcessError")
    /\ (pc = "summarized" /\ ExecutableBaseName(subprocess_args) # PigzName)
       => (RowAppended /\ outcome = NoOutcome)

\* C5 when every password value is made of word characters only
C5_WhenValuesAreWords ==
    (/\ calls > 0 /\ command.type = "str" /\ log # <<>>
     /\ \A v \in PasswordValues(command.text) : \A i \in 1..Len(v) : v[i] \in WordChars)
    => log[1].strs[1] = FullyRedactedFrom(command.text, 1)

\* C7 when less than a day has elapsed
C7_WhenUnderOneDay ==
    (/\ SummarizeRan /\ RowAppended /\ TimeLeq(cmd_start, cmd_end)
     /\ ElapsedWholeSeconds(cmd_start, cmd_end) < 86400)
    => LastRow.duration = ClaimedDuration(cmd_start, cmd_end)

\* C9 when at most one token matches a flag pattern
C9_WhenAtMostOneMatch ==
    (/\ SummarizeRan
     /\ subprocess_args # <<>>
     /\ ExecutableBaseName(subprocess_args) # PigzName
     /\ NoToolRule
     /\ Cardinality({i \in 1..Len(subprocess_args) :
                        MatchesAFlagPattern(subprocess_args[i])}) <= 1)
    => /\ RowAppended
       /\ LastRow.xtrabackup_fn = FirstMatchKind(subprocess_args)

====
